---- MODULE Spec2Model ----
(***************************************************************************)
(* Quicker Folders (src/src/main.ts): the note resolver (resolveNote and   *)
(* its helpers) and the interaction gate (the capture-phase click and      *)
(* pointer handlers, the patched setCollapsed and its reset timer).        *)
(***************************************************************************)
EXTENDS Integers, Sequences, FiniteSets, TLC

VARIABLES
    vault,        \* the note collection: folder tree and the notes in it
    settings,     \* this.settings
    phase,        \* plugin lifecycle: "constructed", "loaded", "unloaded"
    layoutQueue,  \* doPatch is queued by onLayoutReady and has not run yet
    patched,      \* folderProto.setCollapsed is the plugin's wrapper
    unpatchFn,    \* this.unpatchFn is set
    blockToggle,  \* this.blockToggle
    timers,       \* number of pending setTimeout(reset, 100) callbacks
    evt           \* the last event dispatched and what became of it: whether
                  \* the plugin stopped it, what resolveNote returned for it,
                  \* and whether the host's setCollapsed call was executed

vars == <<vault, settings, phase, layoutQueue, patched, unpatchFn,
          blockToggle, timers, evt>>

----------------------------------------------------------------------------
(* Bounds *)

MaxFolders == 3
MaxNotes == 2
MaxMtime == 2
MaxTimers == 2

Folders == 1..MaxFolders

\* `null` and `undefined`: what resolveNote returns when it returns no note.
\* Notes are identified by their position (1..) in vault.notes.
Null == 0
Undefined == -1

----------------------------------------------------------------------------
(* Strings are sequences of one-character strings. *)

Str_index == <<"i", "n", "d", "e", "x">>
Str_Index == <<"I", "n", "d", "e", "x">>
Str_MyIndex == <<"M", "y", "I", "n", "d", "e", "x">>
Str_MYI == <<"M", "Y", "I">>
Str_ab == <<"a", "b">>
Str_MYI_padded == <<" ", "M", "Y", "I", " ">>
Str_md == <<"m", "d">>
Str_png == <<"p", "n", "g">>

\* String.prototype.toLowerCase, one character
ToLowerChar(c) ==
    CASE c = "I" -> "i"
      [] c = "M" -> "m"
      [] c = "Y" -> "y"
      [] OTHER -> c

\* String.prototype.toLowerCase
toLowerCase(s) == [i \in DOMAIN s |-> ToLowerChar(s[i])]

RECURSIVE trimStart(_)
trimStart(s) == IF Len(s) > 0 /\ s[1] = " " THEN trimStart(Tail(s)) ELSE s

RECURSIVE trimEnd(_)
trimEnd(s) ==
    IF Len(s) > 0 /\ s[Len(s)] = " " THEN trimEnd(SubSeq(s, 1, Len(s) - 1)) ELSE s

\* String.prototype.trim
trim(s) == trimEnd(trimStart(s))

\* String.prototype.includes
includes(s, sub) ==
    \E i \in 0..(Len(s) - Len(sub)) : SubSeq(s, i + 1, i + Len(sub)) = sub

\* Collation order of the characters used: punctuation before letters,
\* letters in alphabetical order whatever their case.
Alphabet == <<".", "/", "a", "b", "d", "e", "g", "i", "m", "n", "p", "x", "y">>

CharRank(c) ==
    LET l == ToLowerChar(c)
    IN  CHOOSE k \in 1..Len(Alphabet) : Alphabet[k] = l

IsUpper(c) == ToLowerChar(c) # c

RECURSIVE SeqCompare(_, _)
\* lexicographic comparison of two sequences of numbers: -1, 0 or 1
SeqCompare(a, b) ==
    IF Len(a) = 0 /\ Len(b) = 0 THEN 0
    ELSE IF Len(a) = 0 THEN -1
    ELSE IF Len(b) = 0 THEN 1
    ELSE IF a[1] < b[1] THEN -1
    ELSE IF a[1] > b[1] THEN 1
    ELSE SeqCompare(Tail(a), Tail(b))

\* String.prototype.localeCompare: letters first (case ignored), then, between
\* strings with the same letters, lower case before upper case.
localeCompare(a, b) ==
    LET primary == SeqCompare([i \in DOMAIN a |-> CharRank(a[i])],
                              [i \in DOMAIN b |-> CharRank(b[i])])
    IN  IF primary # 0 THEN primary
        ELSE SeqCompare([i \in DOMAIN a |-> IF IsUpper(a[i]) THEN 1 ELSE 0],
                        [i \in DOMAIN b |-> IF IsUpper(b[i]) THEN 1 ELSE 0])

----------------------------------------------------------------------------
(* Configuration *)

Fallbacks == {"recent", "alphabetical", "none"}
EmptyFolderBehaviors == {"recent_recursive", "recent_index", "none"}

DEFAULT_SETTINGS ==
    [fallback |-> "recent",
     emptyFolderBehavior |-> "recent_index",
     allowFolderToggle |-> TRUE,
     strictMatching |-> FALSE,
     keyword |-> Str_index]

----------------------------------------------------------------------------
(* The note collection *)

\* basename and extension of the files the vaults are drawn from
FileNames ==
    { [basename |-> Str_index, extension |-> Str_md],
      [basename |-> Str_Index, extension |-> Str_md],
      [basename |-> Str_MyIndex, extension |-> Str_md],
      [basename |-> Str_index, extension |-> Str_png] }

\* TFile: parent folder, basename, extension, stat.mtime, and whether the
\* metadata cache holds frontmatter index_note === true for it (only a
\* markdown file has frontmatter)
Files ==
    { file \in [folder : Folders, basename : {n.basename : n \in FileNames},
                extension : {n.extension : n \in FileNames},
                mtime : 1..MaxMtime, marked : BOOLEAN] :
        /\ [basename |-> file.basename, extension |-> file.extension] \in FileNames
        /\ file.marked => file.extension = Str_md }

\* parent of each folder; folder 1 is the top folder (its parent, the vault
\* root, is 0), every other folder lies below a folder created before it
ParentMaps ==
    { p \in [Folders -> 0..MaxFolders] :
        /\ p[1] = 0
        /\ \A f \in Folders \ {1} : p[f] \in 1..(f - 1) }

FileSeqs == UNION { [1..k -> Files] : k \in 0..MaxNotes }

\* TFile.name
FileName(file) == file.basename \o <<".">> \o file.extension

FolderName(f) == <<"F">> \o <<ToString(f)>>

RECURSIVE FolderPath(_, _)
\* TFolder.path
FolderPath(v, f) ==
    IF v.parent[f] = 0 THEN FolderName(f)
    ELSE FolderPath(v, v.parent[f]) \o <<"/">> \o FolderName(f)

\* TFile.path
FilePath(v, n) == FolderPath(v, v.notes[n].folder) \o <<"/">> \o FileName(v.notes[n])

\* a vault holds one file per path; vault.notes lists the files folder by
\* folder, the files of one folder in the order of folder.children
Vaults ==
    { v \in [parent : ParentMaps, notes : FileSeqs] :
        \A i, j \in DOMAIN v.notes :
            i < j => /\ FilePath(v, i) # FilePath(v, j)
                     /\ v.notes[i].folder <= v.notes[j].folder }

----------------------------------------------------------------------------
(* The resolver *)

\* Array.prototype.sort with a comparator: a stable sort
\* (cmp[a, b] is the comparator's value for a and b)
sort(s, cmp) ==
    LET Rank(i) == Cardinality({ j \in DOMAIN s :
                        \/ cmp[s[j], s[i]] < 0
                        \/ cmp[s[j], s[i]] = 0 /\ j < i }) + 1
    IN  [k \in DOMAIN s |-> s[CHOOSE i \in DOMAIN s : Rank(i) = k]]

\* Array.prototype.find over note ids: the first element of `files` in
\* `matching`, or undefined (falsy, every caller turns it into null)
find(files, matching) ==
    IF \E k \in DOMAIN files : files[k] \in matching
    THEN files[CHOOSE k \in DOMAIN files :
                  /\ files[k] \in matching
                  /\ \A j \in 1..(k - 1) : files[j] \notin matching]
    ELSE Null

\* (a, b) => a.name.localeCompare(b.name)
ByName ==
    [a, b \in DOMAIN vault.notes |->
        localeCompare(FileName(vault.notes[a]), FileName(vault.notes[b]))]

\* (a, b) => b.stat.mtime - a.stat.mtime
ByMtimeDesc ==
    [a, b \in DOMAIN vault.notes |-> vault.notes[b].mtime - vault.notes[a].mtime]

\* the subfolders among folder.children, in child order
ChildFolders(folder) ==
    SelectSeq([g \in 1..MaxFolders |-> g], LAMBDA g : vault.parent[g] = folder)

\* the files among folder.children, in child order
ChildFiles(folder) ==
    SelectSeq([n \in 1..Len(vault.notes) |-> n],
              LAMBDA n : vault.notes[n].folder = folder)

\* getMarkdownFiles without the test of the extension
getMarkdownFiles_AnyExtension(folder) == ChildFiles(folder)

getMarkdownFiles(folder) ==
    SelectSeq(ChildFiles(folder), LAMBDA n : vault.notes[n].extension = Str_md)

\* a lookup by path that ignores the case of the letters
getFileByPath_IgnoreCase(path) ==
    IF \E n \in DOMAIN vault.notes : toLowerCase(FilePath(vault, n)) = toLowerCase(path)
    THEN CHOOSE n \in DOMAIN vault.notes :
             toLowerCase(FilePath(vault, n)) = toLowerCase(path)
    ELSE Null

\* vault.getAbstractFileByPath(path) instanceof TFile ? file : null
getFileByPath(path) ==
    IF \E n \in DOMAIN vault.notes : FilePath(vault, n) = path
    THEN CHOOSE n \in DOMAIN vault.notes : FilePath(vault, n) = path
    ELSE Null

\* getIndexNote with the keyword looked up before the marker
getIndexNote_KeywordFirst(folder) ==
    LET files == getMarkdownFiles(folder)
        frontmatterIndex ==
            find(files, { n \in DOMAIN vault.notes : vault.notes[n].marked })
        keyword == toLowerCase(settings.keyword)
        exact == find(files, { n \in DOMAIN vault.notes :
                                 toLowerCase(vault.notes[n].basename) = keyword })
    IN  IF exact # Null THEN exact ELSE frontmatterIndex

getIndexNote(folder) ==
    LET files == getMarkdownFiles(folder)
        frontmatterIndex ==
            find(files, { n \in DOMAIN vault.notes : vault.notes[n].marked })
        keyword == toLowerCase(settings.keyword)
        path == FolderPath(vault, folder) \o <<"/">> \o keyword \o <<".">> \o Str_md
        exact == find(files, { n \in DOMAIN vault.notes :
                                 toLowerCase(vault.notes[n].basename) = keyword })
        partial == find(files, { n \in DOMAIN vault.notes :
                                 includes(toLowerCase(vault.notes[n].basename), keyword) })
    IN  IF frontmatterIndex # Null THEN frontmatterIndex
        ELSE IF settings.strictMatching THEN getFileByPath(path)
        ELSE IF exact # Null THEN exact
        ELSE partial

RECURSIVE Flatten(_)
\* concatenation of a sequence of sequences
Flatten(ss) == IF Len(ss) = 0 THEN <<>> ELSE Head(ss) \o Flatten(Tail(ss))

RECURSIVE getMarkdownFilesRecursive(_)
getMarkdownFilesRecursive(folder) ==
    getMarkdownFiles(folder)
        \o Flatten([k \in DOMAIN ChildFolders(folder) |->
                        getMarkdownFilesRecursive(ChildFolders(folder)[k])])

getMostRecentRecursive(folder) ==
    LET files == getMarkdownFilesRecursive(folder)
    IN  IF Len(files) = 0 THEN Null ELSE sort(files, ByMtimeDesc)[1]

getAlphabeticalFirst(folder) ==
    LET files == getMarkdownFiles(folder)
    IN  IF Len(files) = 0 THEN Null ELSE sort(files, ByName)[1]

\* getMostRecent over the notes of the whole subtree
getMostRecent_WholeSubtree(folder) == getMostRecentRecursive(folder)

getMostRecent(folder) ==
    LET files == getMarkdownFiles(folder)
    IN  IF Len(files) = 0 THEN Null ELSE sort(files, ByMtimeDesc)[1]

\* getMostRecentSubfolderIndex that descends below the immediate subfolders
getMostRecentSubfolderIndex_Deep(folder) == getMostRecentRecursive(folder)

getMostRecentSubfolderIndex(folder) ==
    LET subs == ChildFolders(folder)
        found == SelectSeq(subs, LAMBDA g : getIndexNote(g) # Null)
        indices == [k \in DOMAIN found |-> getIndexNote(found[k])]
    IN  IF Len(indices) = 0 THEN Null ELSE sort(indices, ByMtimeDesc)[1]

\* the switch on the fallback with "none" treated as "recent"
directFallback_NoneAsRecent(folder) ==
    CASE settings.fallback = "alphabetical" -> getAlphabeticalFirst(folder)
      [] settings.fallback = "recent" -> getMostRecent(folder)
      [] settings.fallback = "none" -> getMostRecent(folder)
      [] OTHER -> Undefined

\* the switch on settings.fallback over the direct notes (lines 244-251);
\* no case matches a value outside Fallback and the function ends: undefined
directFallback(folder) ==
    CASE settings.fallback = "alphabetical" -> getAlphabeticalFirst(folder)
      [] settings.fallback = "recent" -> getMostRecent(folder)
      [] settings.fallback = "none" -> Null
      [] OTHER -> Undefined

\* the same switch over the notes of the folder and of its immediate
\* subfolders only
recursiveFallback_OneLevel(folder) ==
    LET recursiveFiles ==
            getMarkdownFiles(folder)
                \o Flatten([k \in DOMAIN ChildFolders(folder) |->
                                getMarkdownFiles(ChildFolders(folder)[k])])
    IN  IF Len(recursiveFiles) = 0 THEN Null
        ELSE CASE settings.fallback = "alphabetical" -> sort(recursiveFiles, ByName)[1]
               [] settings.fallback = "recent" -> sort(recursiveFiles, ByMtimeDesc)[1]
               [] settings.fallback = "none" -> Null
               [] OTHER -> directFallback(folder)

\* the switch on settings.fallback over the notes of the subtree (lines
\* 230-241); a value outside Fallback leaves the block for the switch below
recursiveFallback(folder) ==
    LET recursiveFiles == getMarkdownFilesRecursive(folder)
    IN  IF Len(recursiveFiles) = 0 THEN Null
        ELSE CASE settings.fallback = "alphabetical" -> sort(recursiveFiles, ByName)[1]
               [] settings.fallback = "recent" -> sort(recursiveFiles, ByMtimeDesc)[1]
               [] settings.fallback = "none" -> Null
               [] OTHER -> directFallback(folder)

\* the switch on settings.emptyFolderBehavior (lines 216-226), for a value
\* other than "none"
emptyFolderResult(folder) ==
    CASE settings.emptyFolderBehavior = "recent_recursive" -> getMostRecentRecursive(folder)
      [] settings.emptyFolderBehavior = "recent_index" -> getMostRecentSubfolderIndex(folder)
      [] OTHER -> Null

resolveNote(folder) ==
    LET index == getIndexNote(folder)
        directFiles == getMarkdownFiles(folder)
    IN  IF index # Null THEN index
        ELSE IF Len(directFiles) = 0
        THEN IF settings.emptyFolderBehavior = "none" THEN Null
             ELSE IF emptyFolderResult(folder) # Null THEN emptyFolderResult(folder)
             ELSE recursiveFallback(folder)
        ELSE directFallback(folder)

----------------------------------------------------------------------------
(* Events and their targets *)

\* An event target: whether it lies within a .nav-folder-title element,
\* whether it lies within the collapse arrow of that title, and the title's
\* data-path attribute: absent ("none"), a path that is no live folder
\* ("stale"), or the path of a folder ("folder").
Outside == [title |-> FALSE, arrow |-> FALSE, attr |-> "none", folder |-> 0]

TitleTargets ==
    { [title |-> TRUE, arrow |-> a, attr |-> "folder", folder |-> f] :
        a \in BOOLEAN, f \in Folders }
    \cup { [title |-> TRUE, arrow |-> a, attr |-> p, folder |-> 0] :
        a \in BOOLEAN, p \in {"none", "stale"} }

Targets == {Outside} \cup TitleTargets

NoEvent ==
    [kind |-> "none", tgt |-> Outside, stopped |-> FALSE, toggle |-> "none",
     note |-> Null]

----------------------------------------------------------------------------
(* Settings: load and the handlers of the settings tab *)

\* what loadData() may hold for a field: nothing, or a value; the values
\* include one outside the field's type for the two strategy fields and
\* strings the settings tab would not have stored for the keyword
Missing == "missing"

StoredData ==
    [fallback : {Missing, "none", "bogus"},
     emptyFolderBehavior : {Missing, "recent_recursive"},
     allowFolderToggle : {Missing, "false"},
     strictMatching : {Missing, "true"},
     keyword : {<<Missing>>, Str_MYI}]

\* Object.assign({}, DEFAULT_SETTINGS, data): every own property of data
\* overrides the default, whatever its value
loadSettings(data) ==
    [fallback |-> IF data.fallback = Missing
                  THEN DEFAULT_SETTINGS.fallback ELSE data.fallback,
     emptyFolderBehavior |-> IF data.emptyFolderBehavior = Missing
                  THEN DEFAULT_SETTINGS.emptyFolderBehavior
                  ELSE data.emptyFolderBehavior,
     allowFolderToggle |-> IF data.allowFolderToggle = Missing
                  THEN DEFAULT_SETTINGS.allowFolderToggle
                  ELSE data.allowFolderToggle = "true",
     strictMatching |-> IF data.strictMatching = Missing
                  THEN DEFAULT_SETTINGS.strictMatching
                  ELSE data.strictMatching = "true",
     keyword |-> IF data.keyword = <<Missing>>
                  THEN DEFAULT_SETTINGS.keyword ELSE data.keyword]

\* what the user may type into the keyword field
TypedKeywords == {Str_index, Str_MYI_padded, Str_ab}

SetFallback(value) ==
    /\ phase = "loaded"
    /\ settings' = [settings EXCEPT !.fallback = value]
    /\ evt' = NoEvent
    /\ UNCHANGED <<vault, phase, layoutQueue, patched, unpatchFn, blockToggle,
                   timers>>

SetEmptyFolderBehavior(value) ==
    /\ phase = "loaded"
    /\ settings' = [settings EXCEPT !.emptyFolderBehavior = value]
    /\ evt' = NoEvent
    /\ UNCHANGED <<vault, phase, layoutQueue, patched, unpatchFn, blockToggle,
                   timers>>

\* the Save button of the keyword field
SaveKeyword(typed) ==
    LET pendingKeyword == toLowerCase(trim(typed))
    IN  /\ phase = "loaded"
        /\ settings' = IF Len(pendingKeyword) < 3 THEN settings
                       ELSE [settings EXCEPT !.keyword = pendingKeyword]
        /\ evt' = NoEvent
        /\ UNCHANGED <<vault, phase, layoutQueue, patched, unpatchFn,
                       blockToggle, timers>>

SetStrictMatching(value) ==
    /\ phase = "loaded"
    /\ settings' = [settings EXCEPT !.strictMatching = value]
    /\ evt' = NoEvent
    /\ UNCHANGED <<vault, phase, layoutQueue, patched, unpatchFn, blockToggle,
                   timers>>

SetAllowFolderToggle(value) ==
    /\ phase = "loaded"
    /\ settings' = [settings EXCEPT !.allowFolderToggle = value]
    /\ evt' = NoEvent
    /\ UNCHANGED <<vault, phase, layoutQueue, patched, unpatchFn, blockToggle,
                   timers>>

\* a call of resolveNote on a folder
Resolve(folder) ==
    /\ phase = "loaded"
    /\ evt' = [kind |-> "resolve",
               tgt |-> [title |-> TRUE, arrow |-> FALSE, attr |-> "folder",
                        folder |-> folder],
               stopped |-> FALSE, toggle |-> "none", note |-> resolveNote(folder)]
    /\ UNCHANGED <<vault, settings, phase, layoutQueue, patched, unpatchFn,
                   blockToggle, timers>>

----------------------------------------------------------------------------
(* Lifecycle *)

\* doPatch: wraps folderProto.setCollapsed when the file explorer view and a
\* folder item are found, and does nothing otherwise
doPatch(found) ==
    /\ patched' = (patched \/ found)
    /\ unpatchFn' = (unpatchFn \/ found)

\* onload: loadSettings, registerFolderClickHandler, patchFileExplorer.
\* onLayoutReady runs doPatch at once when the layout is ready and queues it
\* otherwise.
Onload(data, ready, found) ==
    /\ phase = "constructed"
    /\ phase' = "loaded"
    /\ settings' = loadSettings(data)
    /\ IF ready
       THEN doPatch(found) /\ UNCHANGED layoutQueue
       ELSE layoutQueue' = TRUE /\ UNCHANGED <<patched, unpatchFn>>
    /\ evt' = NoEvent
    /\ UNCHANGED <<vault, blockToggle, timers>>

\* the queued doPatch runs when the layout becomes ready
LayoutReady(found) ==
    /\ layoutQueue
    /\ layoutQueue' = FALSE
    /\ doPatch(found)
    /\ evt' = NoEvent
    /\ UNCHANGED <<vault, settings, phase, blockToggle, timers>>

\* onunload: removeFolderClickHandler, then unpatchFn if it is set
Onunload ==
    /\ phase = "loaded"
    /\ phase' = "unloaded"
    /\ patched' = (patched /\ ~unpatchFn)
    /\ unpatchFn' = FALSE
    /\ evt' = NoEvent
    /\ UNCHANGED <<vault, settings, layoutQueue, blockToggle, timers>>

----------------------------------------------------------------------------
(* The interaction gate *)

\* the window listeners are registered between onload and onunload
Listening == phase = "loaded"

IsLiveFolder(tgt) == tgt.title /\ tgt.attr = "folder"

\* preventToggleHandler: whether it reaches the end (sets blockToggle and
\* stops the event)
preventToggleHandler(tgt) ==
    /\ ~settings.allowFolderToggle
    /\ tgt.title
    /\ ~tgt.arrow

\* clickHandler: whether it gets past the lookups to a live folder
clickReachesFolder(tgt) == tgt.title /\ tgt.attr = "folder"

\* clickHandler: the value of resolveNote, when it is called
clickResolves(tgt) ==
    IF clickReachesFolder(tgt) /\ ~tgt.arrow THEN resolveNote(tgt.folder) ELSE Null

\* clickHandler with the test of allowFolderToggle inverted
clickSuppresses_Inverted(tgt) ==
    /\ tgt.title /\ tgt.attr = "folder"
    /\ settings.allowFolderToggle
    /\ ~tgt.arrow

\* clickHandler: whether it stops the event and schedules the reset timer
clickSuppresses(tgt) ==
    /\ clickReachesFolder(tgt)
    /\ ~settings.allowFolderToggle
    /\ ~tgt.arrow

\* the patched setCollapsed: returns without calling the original while
\* blockToggle is set
setCollapsedBlocked == patched /\ blockToggle

\* mousedown, mouseup, pointerdown or pointerup on a target (one listener
\* serves the four): the capture listener on window runs first; the host
\* does not toggle on these events
Pointer(tgt) ==
    LET handled == Listening /\ preventToggleHandler(tgt)
    IN  /\ blockToggle' = (blockToggle \/ handled)
        /\ evt' = [kind |-> "pointer", tgt |-> tgt,
                   stopped |-> handled, toggle |-> "none", note |-> Null]
        /\ UNCHANGED <<vault, settings, phase, layoutQueue, patched, unpatchFn,
                       timers>>

\* click on a target: clickHandler runs first (capture, on window); unless
\* it stopped the event the host's own listener then toggles the folder the
\* title belongs to, through folderProto.setCollapsed
Click(tgt) ==
    LET handled == Listening /\ clickSuppresses(tgt)
        note == IF Listening THEN clickResolves(tgt) ELSE Null
        hostToggles == ~handled /\ IsLiveFolder(tgt)
        executed == hostToggles /\ ~setCollapsedBlocked
    IN  /\ handled => timers < MaxTimers
        /\ timers' = IF handled THEN timers + 1 ELSE timers
        /\ evt' = [kind |-> "click", tgt |-> tgt,
                   stopped |-> handled,
                   toggle |-> IF executed THEN "executed"
                              ELSE IF hostToggles THEN "blocked" ELSE "none",
                   note |-> note]
        /\ UNCHANGED <<vault, settings, phase, layoutQueue, patched, unpatchFn,
                       blockToggle>>

\* the callback of setTimeout(() => { this.blockToggle = false; }, 100)
TimerFires ==
    /\ timers > 0
    /\ timers' = timers - 1
    /\ blockToggle' = FALSE
    /\ evt' = NoEvent
    /\ UNCHANGED <<vault, settings, phase, layoutQueue, patched, unpatchFn>>

----------------------------------------------------------------------------
(* The plugin in a vault *)

GateVault ==
    [parent |-> [f \in Folders |-> f - 1],
     notes |-> << [folder |-> 1, basename |-> Str_Index, extension |-> Str_md,
                   mtime |-> 1, marked |-> FALSE],
                  [folder |-> 2, basename |-> Str_MyIndex, extension |-> Str_md,
                   mtime |-> 2, marked |-> TRUE] >>]

Init ==
    /\ vault = GateVault
    /\ settings = DEFAULT_SETTINGS
    /\ phase = "constructed"
    /\ layoutQueue = FALSE
    /\ patched = FALSE
    /\ unpatchFn = FALSE
    /\ blockToggle = FALSE
    /\ timers = 0
    /\ evt = NoEvent

Next ==
    \/ \E data \in StoredData, ready \in BOOLEAN, found \in BOOLEAN :
          Onload(data, ready, found)
    \/ \E found \in BOOLEAN : LayoutReady(found)
    \/ Onunload
    \/ \E value \in Fallbacks : SetFallback(value)
    \/ \E value \in EmptyFolderBehaviors : SetEmptyFolderBehavior(value)
    \/ \E typed \in TypedKeywords : SaveKeyword(typed)
    \/ \E value \in BOOLEAN : SetStrictMatching(value)
    \/ \E value \in BOOLEAN : SetAllowFolderToggle(value)
    \/ \E tgt \in Targets : Pointer(tgt)
    \/ \E tgt \in Targets : Click(tgt)
    \/ TimerFires

Spec == Init /\ [][Next]_vars

\* The same program under the one scheduling guarantee the code relies on: a
\* timeout that setTimeout has armed is run by the event loop.  Nothing
\* obliges the user to press, click or change a setting.
FairSpec == Init /\ [][Next]_vars /\ WF_vars(TimerFires)

----------------------------------------------------------------------------
(* The resolver on its own: every vault within the bounds, the settings    *)
(* the settings tab can produce, and calls of resolveNote.                 *)

ResolverInit ==
    /\ vault \in Vaults
    /\ settings = DEFAULT_SETTINGS
    /\ phase = "loaded"
    /\ layoutQueue = FALSE
    /\ patched = FALSE
    /\ unpatchFn = FALSE
    /\ blockToggle = FALSE
    /\ timers = 0
    /\ evt = NoEvent

ResolverNext ==
    \/ \E value \in Fallbacks : SetFallback(value)
    \/ \E value \in EmptyFolderBehaviors : SetEmptyFolderBehavior(value)
    \/ \E typed \in TypedKeywords : SaveKeyword(typed)
    \/ \E value \in BOOLEAN : SetStrictMatching(value)
    \/ \E folder \in Folders : Resolve(folder)

ResolverSpec == ResolverInit /\ [][ResolverNext]_vars

----------------------------------------------------------------------------
(* Vocabulary of the properties, stated on the vault and the settings      *)

\* the direct child notes of a folder
DirectNotes(f) ==
    { n \in DOMAIN vault.notes :
        vault.notes[n].folder = f /\ vault.notes[n].extension = Str_md }

\* the direct child notes that carry the explicit index marker
MarkedNotes(f) == { n \in DirectNotes(f) : vault.notes[n].marked }

RECURSIVE IsWithin(_, _)
\* folder g is f or lies below it, at any depth
IsWithin(g, f) ==
    \/ g = f
    \/ vault.parent[g] # 0 /\ IsWithin(vault.parent[g], f)

\* the notes of the whole subtree of a folder
SubtreeNotes(f) == UNION { DirectNotes(g) : g \in { h \in Folders : IsWithin(h, f) } }

\* the note's name matches the keyword: equality with the lower-cased keyword
\* under strict matching, containment whatever the case otherwise
KeywordMatches(n) ==
    IF settings.strictMatching
    THEN vault.notes[n].basename = toLowerCase(settings.keyword)
    ELSE includes(toLowerCase(vault.notes[n].basename), toLowerCase(settings.keyword))

\* an index note: a note that carries the marker or matches the keyword
IsIndexNote(n) == vault.notes[n].marked \/ KeywordMatches(n)

\* resolveNote has just been called on folder f
Resolved(f) == evt.kind = "resolve" /\ evt.tgt.folder = f

IsAbsent(note) == note \in {Null, Undefined}

----------------------------------------------------------------------------
\* C1: marker precedence. Whenever a folder has a direct child note that
\* carries the marker, resolveNote returns a marked direct child note, the
\* first one in child order, whatever the settings are.
C1_MarkerPrecedence ==
    \A f \in Folders :
        Resolved(f) /\ MarkedNotes(f) # {} =>
            /\ evt.note \in MarkedNotes(f)
            /\ \A m \in MarkedNotes(f) : evt.note <= m

\* C1 witness: a folder whose first note is named after the keyword and is
\* not marked, whose second note is marked, resolved to the second
C1_Witness ==
    \E f \in Folders : \E i, j \in DirectNotes(f) :
        /\ i < j
        /\ ~vault.notes[i].marked /\ vault.notes[i].basename = settings.keyword
        /\ vault.notes[j].marked
        /\ Resolved(f) /\ evt.note = j

----------------------------------------------------------------------------
\* C4 as stated: under strict matching, when no direct child note is marked
\* and a direct child note is named after the keyword in any letter case,
\* resolveNote returns such a note.
C4_StrictAnyCase ==
    \A f \in Folders :
        LET named == { n \in DirectNotes(f) :
                         toLowerCase(vault.notes[n].basename)
                             = toLowerCase(settings.keyword) }
        IN  Resolved(f) /\ settings.strictMatching /\ MarkedNotes(f) = {}
                /\ named # {}
            => evt.note \in named

\* C4 amended: under strict matching, when no direct child note is marked,
\* resolveNote returns the direct child note whose name is the lower-cased
\* keyword, letter for letter, whenever that note exists; a note whose name
\* differs from it in letter case is not matched, so that with fallback none
\* and no note of that exact name the folder resolves to no note.
C4_StrictExactName ==
    \A f \in Folders :
        LET named == { n \in DirectNotes(f) :
                         vault.notes[n].basename = toLowerCase(settings.keyword) }
        IN  Resolved(f) /\ settings.strictMatching /\ MarkedNotes(f) = {} =>
              /\ named # {} => evt.note \in named
              /\ named = {} /\ DirectNotes(f) # {} /\ settings.fallback = "none"
                    => evt.note = Null

\* C4 witness: strict matching, a folder holding Index.md and index.md, none
\* marked, resolved to index.md although Index.md comes first
C4_Witness ==
    \E f \in Folders : \E i, j \in DirectNotes(f) :
        /\ i < j
        /\ vault.notes[i].basename = Str_Index
        /\ vault.notes[j].basename = Str_index
        /\ MarkedNotes(f) = {}
        /\ settings.strictMatching /\ settings.keyword = Str_index
        /\ Resolved(f) /\ evt.note = j

\* C5: a folder whose whole subtree holds no note resolves to no note,
\* whatever the settings and the shape of the subtree.
C5_NoNotesAnywhere ==
    \A f \in Folders :
        Resolved(f) /\ SubtreeNotes(f) = {} => IsAbsent(evt.note)

\* C5 witness: the top folder, with subfolders two levels deep and a file
\* that is no note somewhere in the subtree, resolved to no note under
\* settings that search the subtree
C5_Witness ==
    /\ vault.parent[MaxFolders] > 1
    /\ SubtreeNotes(1) = {}
    /\ vault.notes # <<>>
    /\ settings.emptyFolderBehavior = "recent_recursive"
    /\ settings.fallback = "alphabetical"
    /\ Resolved(1) /\ IsAbsent(evt.note)

\* no direct child note of the folder is an index note
NoIndex(f) == \A n \in DirectNotes(f) : ~IsIndexNote(n)

\* C6: when a folder has direct child notes, none of them an index note, the
\* fallback is applied to the direct child notes alone: "recent" returns one
\* with the greatest mtime, "alphabetical" the one with the smallest name,
\* "none" returns no note; a note of a subfolder is never returned.
C6_DirectFallback ==
    \A f \in Folders :
        Resolved(f) /\ DirectNotes(f) # {} /\ NoIndex(f) =>
          /\ settings.fallback = "recent" =>
                /\ evt.note \in DirectNotes(f)
                /\ \A m \in DirectNotes(f) :
                      vault.notes[evt.note].mtime >= vault.notes[m].mtime
          /\ settings.fallback = "alphabetical" =>
                /\ evt.note \in DirectNotes(f)
                /\ \A m \in DirectNotes(f) :
                      localeCompare(FileName(vault.notes[evt.note]),
                                    FileName(vault.notes[m])) <= 0
          /\ settings.fallback = "none" => evt.note = Null

\* C6 witness: fallback "recent", a folder with one direct note that is no
\* index note and a more recent note in a subfolder, resolved to the direct
\* note
C6_Witness ==
    \E f \in Folders : \E d \in DirectNotes(f) : \E s \in SubtreeNotes(f) :
        /\ s \notin DirectNotes(f)
        /\ vault.notes[s].mtime > vault.notes[d].mtime
        /\ NoIndex(f)
        /\ settings.fallback = "recent"
        /\ Resolved(f) /\ evt.note = d

\* C6 witness, alphabetical: two direct notes, the second one first by name
C6_WitnessAlphabetical ==
    \E f \in Folders : \E i, j \in DirectNotes(f) :
        /\ i < j
        /\ NoIndex(f)
        /\ settings.fallback = "alphabetical"
        /\ Resolved(f) /\ evt.note = j

\* the index notes of the immediate subfolders of a folder, one per subfolder
SubfolderIndexNotes(f) ==
    { getIndexNote(g) : g \in { h \in Folders : vault.parent[h] = f } } \ {Null}

\* C7: for a folder without direct child notes under "recent_index", when an
\* immediate subfolder has an index note, resolveNote returns the most
\* recently modified of the immediate subfolders' index notes, and never a
\* note of a deeper folder.
C7_SubfolderIndexBound ==
    \A f \in Folders :
        Resolved(f) /\ DirectNotes(f) = {}
            /\ settings.emptyFolderBehavior = "recent_index"
            /\ (\E g \in Folders : \E n \in DirectNotes(g) :
                    vault.parent[g] = f /\ IsIndexNote(n))
        =>  /\ evt.note \in SubfolderIndexNotes(f)
            /\ IsIndexNote(evt.note)
            /\ vault.parent[vault.notes[evt.note].folder] = f
            /\ \A m \in SubfolderIndexNotes(f) :
                  vault.notes[evt.note].mtime >= vault.notes[m].mtime

\* C7 witness: a subfolder with an index note and, below it, a grandchild
\* folder with a more recent note; the folder resolved to the subfolder's
\* index note
C7_Witness ==
    \E f, g, h \in Folders : \E n \in DirectNotes(g) : \E d \in DirectNotes(h) :
        /\ vault.parent[g] = f /\ vault.parent[h] = g
        /\ vault.notes[d].mtime > vault.notes[n].mtime
        /\ settings.emptyFolderBehavior = "recent_index"
        /\ Resolved(f) /\ evt.note = n

\* C7 witness, two subfolders: each has an index note and the folder is
\* resolved to the more recent one, that of the second subfolder
C7_WitnessTwoSubfolders ==
    \E f, g, h \in Folders : \E n \in DirectNotes(g) : \E m \in DirectNotes(h) :
        /\ g < h /\ vault.parent[g] = f /\ vault.parent[h] = f
        /\ vault.notes[m].mtime > vault.notes[n].mtime
        /\ IsIndexNote(n) /\ IsIndexNote(m)
        /\ settings.emptyFolderBehavior = "recent_index"
        /\ Resolved(f) /\ evt.note = m

----------------------------------------------------------------------------
\* C2 as stated: in every reachable state of the gate a click on the arrow of
\* a folder is not stopped and the setCollapsed call the host makes for it
\* is executed, never dropped because blockToggle is set.
C2_ArrowAlwaysToggles ==
    evt.kind = "click" /\ IsLiveFolder(evt.tgt) /\ evt.tgt.arrow =>
        /\ ~evt.stopped
        /\ evt.toggle = "executed"

\* C3: while the plugin listens and allowFolderToggle is false, a click on
\* the title of a live folder, off the arrow, is stopped before the host's
\* listener, the host's setCollapsed is not executed for it, and the value of
\* resolveNote for that folder is what the handler opens.
C3_TitleClickSuppressed ==
    evt.kind = "click" /\ Listening /\ ~settings.allowFolderToggle
        /\ IsLiveFolder(evt.tgt) /\ ~evt.tgt.arrow
    =>  /\ evt.stopped
        /\ evt.toggle # "executed"
        /\ evt.note = resolveNote(evt.tgt.folder)

\* C3 witness: such a click, on a folder that resolves to a note, with the
\* patch installed and one reset timer pending
C3_Witness ==
    /\ evt.kind = "click" /\ Listening /\ ~settings.allowFolderToggle
    /\ IsLiveFolder(evt.tgt) /\ ~evt.tgt.arrow
    /\ patched /\ timers = 1
    /\ evt.stopped /\ evt.note = 1

\* the folder-title targets whose lookup misses: no data-path attribute, or a
\* data-path that is no live folder
MissTargets == { tgt \in TitleTargets : tgt.attr \in {"none", "stale"} }

\* C9 as stated: handling a pointer or click event whose folder title has no
\* identifier, or an identifier that resolves to no live folder, opens no
\* note and leaves blockToggle as it was.
C9_LookupMissNoOp ==
    [][\A tgt \in MissTargets :
          Pointer(tgt) \/ Click(tgt) =>
              /\ blockToggle' = blockToggle
              /\ evt'.note = Null]_vars

\* C10 as stated: once loadSettings has run, every field of the settings
\* holds a value of its domain.
C10_LoadedSettingsLegal ==
    phase # "constructed" =>
        /\ settings.fallback \in Fallbacks
        /\ settings.emptyFolderBehavior \in EmptyFolderBehaviors
        /\ settings.allowFolderToggle \in BOOLEAN
        /\ settings.strictMatching \in BOOLEAN
        /\ Len(settings.keyword) >= 3

----------------------------------------------------------------------------
\* C11 as stated: whenever blockToggle is set, the timer callback eventually
\* resets it, whatever pointer events and changes of allowFolderToggle
\* follow, a press that no click on a live folder follows included.
C11_FlagEventuallyReset == blockToggle ~> ~blockToggle

\* C11, second half: only the pointer handler and the timer callback change
\* blockToggle.
C11_FlagWrittenOnlyByGate ==
    [][blockToggle' # blockToggle =>
          \/ TimerFires
          \/ \E tgt \in Targets : Pointer(tgt)]_vars

----------------------------------------------------------------------------
\* the strategy for a folder without direct notes finds no note: under
\* "recent_index" no immediate subfolder has an index note, under
\* "recent_recursive" the subtree holds no note
EmptyStrategyFindsNone(f) ==
    \/ /\ settings.emptyFolderBehavior = "recent_index"
       /\ \A g \in Folders : vault.parent[g] = f => NoIndex(g)
    \/ /\ settings.emptyFolderBehavior = "recent_recursive"
       /\ SubtreeNotes(f) = {}

\* C12: for a folder without direct child notes, emptyFolderBehavior "none"
\* resolves to no note whatever the fallback and the notes below it; any
\* other emptyFolderBehavior that finds no note falls through to the
\* fallback applied to all notes of the subtree, at any depth: "recent"
\* returns one with the greatest mtime, "alphabetical" one with the smallest
\* name, "none" no note, and an empty subtree gives no note.
C12_EmptyFolderFallThrough ==
    \A f \in Folders :
        Resolved(f) /\ DirectNotes(f) = {} =>
          /\ settings.emptyFolderBehavior = "none" => evt.note = Null
          /\ EmptyStrategyFindsNone(f) =>
                /\ SubtreeNotes(f) = {} => evt.note = Null
                /\ settings.fallback = "none" => evt.note = Null
                /\ SubtreeNotes(f) # {} /\ settings.fallback = "recent" =>
                      /\ evt.note \in SubtreeNotes(f)
                      /\ \A m \in SubtreeNotes(f) :
                            vault.notes[evt.note].mtime >= vault.notes[m].mtime
                /\ SubtreeNotes(f) # {} /\ settings.fallback = "alphabetical" =>
                      /\ evt.note \in SubtreeNotes(f)
                      /\ \A m \in SubtreeNotes(f) :
                            localeCompare(FileName(vault.notes[evt.note]),
                                          FileName(vault.notes[m])) <= 0

\* C12 witness: under "recent_index" and fallback "recent", a folder without
\* direct notes whose subfolder holds a note that is no index note and whose
\* sub-subfolder holds a more recent note, resolved to the note two levels
\* down
C12_Witness ==
    \E f, g, h \in Folders : \E m \in DirectNotes(g) : \E n \in DirectNotes(h) :
        /\ vault.parent[g] = f /\ vault.parent[h] = g
        /\ DirectNotes(f) = {}
        /\ vault.notes[n].mtime > vault.notes[m].mtime
        /\ settings.emptyFolderBehavior = "recent_index"
        /\ settings.fallback = "recent"
        /\ Resolved(f) /\ evt.note = n

\* C12 witness, alphabetical: the same shape, the note two levels down first
\* by name
C12_WitnessAlphabetical ==
    \E f, g, h \in Folders : \E m \in DirectNotes(g) : \E n \in DirectNotes(h) :
        /\ vault.parent[g] = f /\ vault.parent[h] = g
        /\ DirectNotes(f) = {}
        /\ localeCompare(FileName(vault.notes[n]), FileName(vault.notes[m])) < 0
        /\ settings.emptyFolderBehavior = "recent_index"
        /\ settings.fallback = "alphabetical"
        /\ Resolved(f) /\ evt.note = n

\* C12 witness, "none": a folder without direct notes above a subfolder with
\* an index note, under fallback "recent", resolved to no note
C12_WitnessNone ==
    \E f, g \in Folders : \E n \in DirectNotes(g) :
        /\ vault.parent[g] = f
        /\ DirectNotes(f) = {}
        /\ IsIndexNote(n)
        /\ settings.emptyFolderBehavior = "none"
        /\ settings.fallback = "recent"
        /\ Resolved(f) /\ evt.note = Null

----------------------------------------------------------------------------
\* C13 as stated: once onunload has run, in every later state and whatever
\* the order of onload, the queued layout-ready callback and onunload, the
\* host's setCollapsed is the original method, no listener of the plugin is
\* registered, and no toggle is blocked.
C13_UnloadRestoresHost ==
    phase = "unloaded" =>
        /\ ~patched
        /\ ~Listening
        /\ ~setCollapsedBlocked

\* C13, the listeners alone: once onunload has run none of the plugin's
\* listeners is registered and no event is stopped by it.
C13_UnloadRemovesListeners ==
    phase = "unloaded" => ~Listening /\ ~evt.stopped

====
